---- MODULE Spec2Model ----
(***************************************************************************)
(* The signal-to-order pipeline of the trading worker: run_worker.once()   *)
(* driven by the polling loop of run_worker.main(), over the two brokers   *)
(* of services/execution.py (PaperBroker, AlpacaBroker) and the sizing     *)
(* function of services/risk.py.                                           *)
(*                                                                         *)
(* Time is counted in whole seconds.  Python's None is the string "none".  *)
(* A Python dict read with .get(key, default) is a total function whose    *)
(* value at an absent key is the default.                                  *)
(***************************************************************************)
EXTENDS Integers, Sequences, FiniteSets, TLC

(* ------------------------------------------------------------------ *)
(* Program constants (the defaults the modules read from the          *)
(* environment).                                                      *)
(* ------------------------------------------------------------------ *)
TICKER == "AAPL"

\* RISK_PCT = 0.01 is kept as the fraction RISK_PCT_NUM / RISK_PCT_DEN.
EQUITY == 10000
RISK_PCT_NUM == 1
RISK_PCT_DEN == 100

MIN_FLIP_SECS == 60

ATR_STOP_MULT == 1
ATR_TAKE_MULT == 2

\* AlpacaBroker._min_flip_secs when MIN_FLIP_SECS is not in the environment.
BROKER_MIN_FLIP_DEFAULT == 2

(* ------------------------------------------------------------------ *)
(* Bounds of the model.                                               *)
(* ------------------------------------------------------------------ *)
\* time.time() at start-up; any value larger than every debounce window,
\* as the unix time is.
StartTime == 100
\* The clock stops advancing Horizon seconds after start-up.
Horizon == 70
\* The price of the last bar.
LastClose == 100
\* More orders than this are not accepted by the remote brokerage.
MaxOrders == 2
\* The place_order calls made on the two brokers side by side.
MaxCalls == 3
\* The calls of place_order on the AlpacaBroker in one behaviour.
MaxLiveCalls == 2

MaxTime == StartTime + Horizon

Sides == {"buy", "sell"}
DecisionSides == {"buy", "sell", "hold"}
Symbols == {"AAPL", "MSFT"}

\* The sleeps between two iterations.
Delays == {10, 50}
\* The seconds a submission to the brokerage takes, between the time.time()
\* of _throttle and the time.time() of _update_action_clock.
CallSecs == {0, 10}
\* The ATR of the last bar.
Atrs == {0, 2}

Max(a, b) == IF a >= b THEN a ELSE b

VARIABLES
    now,                \* time.time()
    BROKER,             \* run_worker.BROKER: the class of the broker object
    ALLOW_SHORT,        \* run_worker.ALLOW_SHORT
    BRACKET_MODE,       \* run_worker.BRACKET_MODE
    _last_action_side,  \* run_worker._last_action_side
    _last_action_ts,    \* run_worker._last_action_ts
    _positions,         \* PaperBroker._positions
    _last_side_time,    \* AlpacaBroker._last_side_time
    _min_flip_secs,     \* AlpacaBroker._min_flip_secs
    remote_pos,         \* the brokerage's position in TICKER
    remote_orders,      \* the brokerage's open orders on TICKER
    next_id,            \* the id the brokerage gives its next order
    it,                 \* what the last iteration of the loop did
    accepted,           \* the last two submissions that returned ok
    bracket,            \* what the last AlpacaClient.submit_bracket did
    direct,             \* what the last place_order called on both brokers did
    sizing,             \* what the last position_size did
    loop                \* where main() is, and what it has done

vars == <<now, BROKER, ALLOW_SHORT, BRACKET_MODE, _last_action_side,
          _last_action_ts, _positions, _last_side_time, _min_flip_secs,
          remote_pos, remote_orders, next_id, it, accepted, bracket, direct,
          sizing, loop>>

\* The records of the calls made on one component by itself.
probes == <<bracket, direct, sizing, loop>>

(* ------------------------------------------------------------------ *)
(* services/risk.py                                                   *)
(* ------------------------------------------------------------------ *)
\* Python's None where a number is expected.
NoneNum == -1000000

\* position_size without the equity and risk_pct tests of line 32.
position_size_noEquityGuard(equity, atr, price, num, den) ==
    IF atr = NoneNum \/ price = NoneNum THEN <<0, 0, 0>>
    ELSE IF atr <= 0 \/ price <= 0 THEN <<0, 0, 0>>
    ELSE <<Max(0, (equity * num) \div (den * atr)),
           Max(price - (ATR_STOP_MULT * atr), 0),
           price + (ATR_TAKE_MULT * atr)>>

\* position_size with the take one stop distance away.
position_size_takeAtStopMult(equity, atr, price, num, den) ==
    IF atr = NoneNum \/ price = NoneNum THEN <<0, 0, 0>>
    ELSE IF atr <= 0 \/ price <= 0 \/ equity <= 0 \/ num <= 0 THEN <<0, 0, 0>>
    ELSE <<Max(0, (equity * num) \div (den * atr)),
           Max(price - (ATR_STOP_MULT * atr), 0),
           price + (ATR_STOP_MULT * atr)>>

\* position_size(equity, atr, price, risk_pct), risk_pct = num / den, for
\* an equity and a risk_pct that are numbers.  Returns <<qty, stop, take>>.
position_size(equity, atr, price, num, den) ==
    IF atr = NoneNum \/ price = NoneNum THEN <<0, 0, 0>>
    ELSE IF atr <= 0 \/ price <= 0 \/ equity <= 0 \/ num <= 0 THEN <<0, 0, 0>>
    ELSE LET risk_num == equity * num
             per_share_risk == atr
             qty == Max(0, risk_num \div (den * per_share_risk))
             stop == Max(price - (ATR_STOP_MULT * atr), 0)
             take == price + (ATR_TAKE_MULT * atr)
         IN  <<qty, stop, take>>

\* position_size raises TypeError: the tests of line 32 are made from left
\* to right and stop at the first that holds, and "None <= 0" raises.
position_size_raises(equity, atr, price) ==
    /\ atr # NoneNum /\ price # NoneNum
    /\ ~(atr <= 0) /\ ~(price <= 0)
    /\ equity = NoneNum

(* ------------------------------------------------------------------ *)
(* services/execution.py: OrderResult and PaperBroker                 *)
(* ------------------------------------------------------------------ *)
\* OrderResult(ok, id, status, error); the fields left out default to None.
OrderResult(ok, id, status, error) ==
    [ok |-> ok, id |-> id, status |-> status, error |-> error]

\* The names an object of each broker class answers to (hasattr, getattr).
BrokerAttrs(cls) ==
    IF cls = "PaperBroker"
    THEN {"paper", "_positions", "place_order", "get_position_qty"}
    ELSE {"paper", "base", "key", "secret", "_last_side_time",
          "_min_flip_secs", "_headers", "_request", "get_position_qty",
          "_get_open_orders", "_cancel_order",
          "_cancel_opposite_open_orders", "place_order"}

PaperFilled == OrderResult(TRUE, "paper", "filled", "none")

\* place_order without the test of lines 46-48: a Sell is never refused.
PaperBroker_place_order_noCheck(pos, symbol, side, qty) ==
    IF side = "buy"
    THEN [res |-> PaperFilled, pos |-> [pos EXCEPT ![symbol] = pos[symbol] + qty]]
    ELSE IF side = "sell"
    THEN [res |-> PaperFilled,
          pos |-> [pos EXCEPT ![symbol] = Max(0, pos[symbol] - qty)]]
    ELSE [res |-> PaperFilled, pos |-> pos]

\* place_order whose Sell closes the whole position, whatever qty is.
PaperBroker_place_order_sellAll(pos, symbol, side, qty) ==
    IF side = "buy"
    THEN [res |-> PaperFilled, pos |-> [pos EXCEPT ![symbol] = pos[symbol] + qty]]
    ELSE IF side = "sell"
    THEN IF pos[symbol] <= 0
         THEN [res |-> OrderResult(FALSE, "none", "none", "no_position_to_sell"),
               pos |-> pos]
         ELSE [res |-> PaperFilled, pos |-> [pos EXCEPT ![symbol] = 0]]
    ELSE [res |-> PaperFilled, pos |-> pos]

\* place_order without the max(0.0, ...) of line 49.
PaperBroker_place_order_noClamp(pos, symbol, side, qty) ==
    IF side = "buy"
    THEN [res |-> PaperFilled, pos |-> [pos EXCEPT ![symbol] = pos[symbol] + qty]]
    ELSE IF side = "sell"
    THEN IF pos[symbol] <= 0
         THEN [res |-> OrderResult(FALSE, "none", "none", "no_position_to_sell"),
               pos |-> pos]
         ELSE [res |-> PaperFilled,
               pos |-> [pos EXCEPT ![symbol] = pos[symbol] - qty]]
    ELSE [res |-> PaperFilled, pos |-> pos]

\* PaperBroker.place_order(symbol, side, qty, ...) on the ledger pos:
\* the result and the ledger afterwards.
PaperBroker_place_order(pos, symbol, side, qty) ==
    IF side = "buy"
    THEN [res |-> OrderResult(TRUE, "paper", "filled", "none"),
          pos |-> [pos EXCEPT ![symbol] = pos[symbol] + qty]]
    ELSE IF side = "sell"
    THEN IF pos[symbol] <= 0
         THEN [res |-> OrderResult(FALSE, "none", "none", "no_position_to_sell"),
               pos |-> pos]
         ELSE [res |-> OrderResult(TRUE, "paper", "filled", "none"),
               pos |-> [pos EXCEPT ![symbol] = Max(0, pos[symbol] - qty)]]
    ELSE [res |-> OrderResult(TRUE, "paper", "filled", "none"), pos |-> pos]

\* PaperBroker.get_position_qty(symbol).
PaperBroker_get_position_qty(pos, symbol) == pos[symbol]

(* ------------------------------------------------------------------ *)
(* services/execution.py: AlpacaBroker                                *)
(*                                                                    *)
(* The brokerage is its position per symbol (remote position) and its *)
(* set of open orders [id, symbol, side, status, qty].  Each request  *)
(* is answered "none" (no failure: a 2xx, or the 404 of a position    *)
(* that does not exist), "http_error" (urllib.error.HTTPError with    *)
(* another status) or "transport" (any other exception, a timeout     *)
(* included); _request re-raises both.                                *)
(* ------------------------------------------------------------------ *)
HttpFails == {"none", "http_error", "transport"}

\* The statuses of an order the brokerage has accepted and not resolved.
OpenStatuses == {"new", "accepted", "pending_new"}

\* What the brokerage answers to POST /orders: the order filled at once,
\* the order accepted and left open in one of OpenStatuses, a 2xx whose
\* body holds no order object, a non-2xx, or no answer.
PostAnswers == {"filled", "no_id", "http_error", "transport"} \cup OpenStatuses

Opposite(side) == IF side = "buy" THEN "sell" ELSE "buy"

\* What the brokerage answers to GET /positions/{symbol}: 404 when it
\* holds no position in the symbol, the position otherwise, unless the
\* request fails.
PositionAnswer(rpos, symbol, fail) ==
    IF fail # "none" THEN "error"
    ELSE IF rpos[symbol] = 0 THEN "404" ELSE "200"

\* get_position_qty whose handler raises the 404 again.
AlpacaBroker_get_position_qty_raises404(rpos, symbol, fail) ==
    IF PositionAnswer(rpos, symbol, fail) = "200"
    THEN [raised |-> FALSE, val |-> rpos[symbol]]
    ELSE [raised |-> TRUE, val |-> 0]

\* AlpacaBroker.get_position_qty(symbol): [raised, val].
AlpacaBroker_get_position_qty(rpos, symbol, fail) ==
    LET answer == PositionAnswer(rpos, symbol, fail)
    IN  IF answer = "200" THEN [raised |-> FALSE, val |-> rpos[symbol]]
        ELSE IF answer = "404" THEN [raised |-> FALSE, val |-> 0]
        ELSE [raised |-> TRUE, val |-> 0]

\* The entry of the position lookup in the log of the requests.
PositionRequest(rpos, symbol, fail) ==
    IF PositionAnswer(rpos, symbol, fail) = "404" THEN "GET /positions -> 404"
    ELSE IF PositionAnswer(rpos, symbol, fail) = "200" THEN "GET /positions -> 200"
    ELSE "GET /positions -> error"

\* AlpacaBroker._get_open_orders(symbol): [raised, val].
AlpacaBroker_get_open_orders(orders, symbol, fail) ==
    IF fail = "none"
    THEN [raised |-> FALSE, val |-> {o \in orders : o.symbol = symbol}]
    ELSE [raised |-> TRUE, val |-> {}]

\* The cancel step without the test of the status.
CancelTargets_anyStatus(listed, side) ==
    {o \in listed : o.side = Opposite(side)}

\* The orders _cancel_opposite_open_orders asks the brokerage to cancel.
CancelTargets(listed, side) ==
    {o \in listed : o.side = Opposite(side) /\ o.status \in {"new", "accepted"}}

\* AlpacaBroker._cancel_opposite_open_orders(symbol, side):
\* [raised, orders, http]; a DELETE that fails is logged and passed over.
AlpacaBroker_cancel_opposite_open_orders(orders, symbol, side, list_fail, cancel_ok) ==
    LET got == AlpacaBroker_get_open_orders(orders, symbol, list_fail)
        targets == CancelTargets(got.val, side)
    IN  IF got.raised
        THEN [raised |-> TRUE, orders |-> orders, http |-> <<"GET /orders">>]
        ELSE [raised |-> FALSE,
              orders |-> IF cancel_ok THEN orders \ targets ELSE orders,
              http |-> <<"GET /orders">> \o
                       [i \in 1..Cardinality(targets) |-> "DELETE /orders"]]

\* The qty of the payload: str(max(1, int(round(qty)))) if qty >= 1 else "1".
PayloadQty(qty) == IF qty >= 1 THEN Max(1, qty) ELSE 1

\* The statuses of the non-2xx answers to POST /orders, and the message of
\* the body the brokerage sends with each.
HttpErrorCodes == {403, 422}

BrokerMessage(code) == IF code = 403 THEN "wash trade" ELSE "insufficient qty"

\* The body of a response is a stream: read() returns what has not been
\* read yet and leaves nothing to read.
Stream(data) == [data |-> data, consumed |-> FALSE]

Read(fp) ==
    [text |-> IF fp.consumed THEN "" ELSE fp.data,
     fp |-> [fp EXCEPT !.consumed = TRUE]]

\* urllib.error.HTTPError for a response of status code.
HTTPError(code) == [code |-> code, fp |-> Stream(BrokerMessage(code))]

\* _request on urllib.error.HTTPError (lines 112-115): e.read() for the
\* log, and the same error raised again.
RequestReraises(e) == [e EXCEPT !.fp = Read(e.fp).fp]

\* f"HTTP {e.code}: {body}" (line 205).
HttpErrorText(code, body) ==
    CASE code = 403 /\ body = "" -> "HTTP 403: "
      [] code = 403 /\ body = "wash trade" -> "HTTP 403: wash trade"
      [] code = 422 /\ body = "" -> "HTTP 422: "
      [] code = 422 /\ body = "insufficient qty" -> "HTTP 422: insufficient qty"
      [] OTHER -> "HTTP"

\* The texts line 205 can make of an answer of the brokerage.
HttpErrorTexts ==
    UNION {{HttpErrorText(c, ""), HttpErrorText(c, BrokerMessage(c))} :
              c \in HttpErrorCodes}

\* The handler of lines 199-205 on the error e that _request raised.
HttpErrorResult(e) ==
    OrderResult(FALSE, "none", "none", HttpErrorText(e.code, Read(e.fp).text))

\* place_order arming its throttle right after the POST, whatever the
\* answer.
AlpacaBroker_post_order_armsAlways(rpos, orders, nid, symbol, side, qty, post, code) ==
    LET q == PayloadQty(qty)
        signed == IF side = "buy" THEN q ELSE 0 - q
        same == [res |-> OrderResult(FALSE, "none", "none", "none"),
                 armed |-> TRUE, pos |-> rpos,
                 orders |-> orders, nid |-> nid]
    IN  IF post = "filled"
        THEN [same EXCEPT !.res = OrderResult(TRUE, ToString(nid), "filled", "none"),
                          !.pos = [rpos EXCEPT ![symbol] = rpos[symbol] + signed],
                          !.nid = nid + 1]
        ELSE IF post \in OpenStatuses
        THEN [same EXCEPT !.res = OrderResult(TRUE, ToString(nid), post, "none"),
                          !.orders = orders \cup {[id |-> nid, symbol |-> symbol,
                                                   side |-> side, status |-> post,
                                                   qty |-> q]},
                          !.nid = nid + 1]
        ELSE IF post = "no_id"
        THEN [same EXCEPT !.res = OrderResult(TRUE, "none", "none", "raw")]
        ELSE IF post = "http_error"
        THEN [same EXCEPT !.res = HttpErrorResult(RequestReraises(HTTPError(code)))]
        ELSE [same EXCEPT !.res = OrderResult(FALSE, "none", "none", "exception")]

\* The POST of place_order (lines 183-207) and what the brokerage does
\* with the order: [res, armed, pos, orders, nid]; code is the status of a
\* non-2xx answer.
AlpacaBroker_post_order(rpos, orders, nid, symbol, side, qty, post, code) ==
    LET q == PayloadQty(qty)
        signed == IF side = "buy" THEN q ELSE 0 - q
    IN  IF post = "filled"
        THEN [res |-> OrderResult(TRUE, ToString(nid), "filled", "none"), armed |-> TRUE,
              pos |-> [rpos EXCEPT ![symbol] = rpos[symbol] + signed],
              orders |-> orders, nid |-> nid + 1]
        ELSE IF post \in OpenStatuses
        THEN [res |-> OrderResult(TRUE, ToString(nid), post, "none"), armed |-> TRUE,
              pos |-> rpos,
              orders |-> orders \cup {[id |-> nid, symbol |-> symbol,
                                       side |-> side, status |-> post,
                                       qty |-> q]},
              nid |-> nid + 1]
        ELSE IF post = "no_id"
        THEN [res |-> OrderResult(TRUE, "none", "none", "raw"), armed |-> FALSE,
              pos |-> rpos, orders |-> orders, nid |-> nid]
        ELSE IF post = "http_error"
        THEN [res |-> HttpErrorResult(RequestReraises(HTTPError(code))),
              armed |-> FALSE, pos |-> rpos, orders |-> orders, nid |-> nid]
        ELSE [res |-> OrderResult(FALSE, "none", "none", "exception"),
              armed |-> FALSE, pos |-> rpos, orders |-> orders, nid |-> nid]

NoResult == OrderResult(FALSE, "none", "none", "none")

\* AlpacaBroker.place_order(symbol, side, qty, ...) called at time t, with
\* the broker's _last_side_time lst and _min_flip_secs mfs, against the
\* brokerage <<rpos, orders, nid>>; h holds the brokerage's answers.
\* [raised, res, lst, pos, orders, nid, http]
AlpacaBroker_place_order(t, lst, mfs, rpos, orders, nid, symbol, side, qty, h) ==
    LET same == [raised |-> FALSE, res |-> NoResult, lst |-> lst, pos |-> rpos,
                 orders |-> orders, nid |-> nid, http |-> <<>>]
        p == AlpacaBroker_get_position_qty(rpos, symbol, h.pos)
        phttp == IF side = "sell" THEN <<PositionRequest(rpos, symbol, h.pos)>>
                 ELSE <<>>
        c == AlpacaBroker_cancel_opposite_open_orders(orders, symbol, side,
                                                      h.list, h.cancel)
        o == AlpacaBroker_post_order(rpos, c.orders, nid, symbol, side, qty,
                                     h.post, h.code)
    IN  IF t - lst[<<symbol, side>>] < mfs
        THEN [same EXCEPT !.res = OrderResult(FALSE, "none", "none", "flip_throttled")]
        ELSE IF side = "sell" /\ p.raised
        THEN [same EXCEPT !.raised = TRUE, !.http = phttp]
        ELSE IF side = "sell" /\ p.val <= 0
        THEN [same EXCEPT !.res = OrderResult(FALSE, "none", "none",
                                              "no_position_to_sell"),
                          !.http = phttp]
        ELSE IF c.raised
        THEN [same EXCEPT !.raised = TRUE, !.http = phttp \o c.http]
        ELSE [raised |-> FALSE, res |-> o.res,
              lst |-> IF o.armed THEN [lst EXCEPT ![<<symbol, side>>] = t] ELSE lst,
              pos |-> o.pos, orders |-> o.orders, nid |-> o.nid,
              http |-> phttp \o c.http \o <<"POST /orders">>]

(* ------------------------------------------------------------------ *)
(* services/alpaca_client.py: AlpacaClient.submit_bracket             *)
(*                                                                    *)
(* Prices are floats in the code.  Here a price given by the caller   *)
(* is a whole number of mils (1/1000 of a dollar), a percentage is a  *)
(* whole number of thousandths (0.01 is 10), and a rounded price is a *)
(* whole number of cents.  round(x, 2) of a float that stands for a   *)
(* decimal half-way between two cents goes either way, by the binary  *)
(* value of the float (round(1.015, 2) = 1.01, round(0.375, 2) =      *)
(* 0.38): the direction is an input of the rounding.                  *)
(* ------------------------------------------------------------------ *)
MilsPerCent == 10
PctDen == 1000

\* round(num / den cents, to the cent): the nearest whole number of cents,
\* up or down on a tie.
Round2(num, den, up) ==
    LET q == num \div den
        r == num % den
    IN  IF 2 * r < den THEN q
        ELSE IF 2 * r > den THEN q + 1
        ELSE IF up THEN q + 1 ELSE q

\* Lines 173-178 with the signs of the buy side on both sides.
DerivePrices_buySigns(side, entry_price, tp_pct, sl_pct) ==
    [take |-> entry_price * (PctDen + tp_pct),
     stop |-> entry_price * (PctDen - sl_pct)]

\* Lines 173-178: the prices derived from entry_price and the percentages,
\* in 1 / (PctDen * MilsPerCent) of a cent.
DerivePrices(side, entry_price, tp_pct, sl_pct) ==
    IF side = "buy"
    THEN [take |-> entry_price * (PctDen + tp_pct),
          stop |-> entry_price * (PctDen - sl_pct)]
    ELSE [take |-> entry_price * (PctDen - tp_pct),
          stop |-> entry_price * (PctDen + sl_pct)]

\* Lines 185-194 with >= and <= for > and <.
BracketOrdered_notStrict(side, take, stop) ==
    IF side = "buy" THEN take >= stop ELSE take <= stop

\* Lines 185-194 with the test of the sell side left out.
BracketOrdered_buyOnly(side, take, stop) ==
    IF side = "buy" THEN take > stop ELSE TRUE

\* Lines 185-194: the test the rounded prices must pass.
BracketOrdered(side, take, stop) ==
    IF side = "buy" THEN take > stop ELSE take < stop

\* What session.post and _handle make of POST /v2/orders (lines 66-90): the
\* order as JSON on a 2xx, requests.HTTPError on another status, any other
\* exception of the transport.
BracketPostAnswers == {"ok", "http_error", "transport"}

\* What a call of submit_bracket leaves: its arguments, the exception it
\* raised ("none": it returned), the rounded prices it reached, the
\* payload it sent (take and stop of the payload, or <<>>), the requests
\* made and the value returned ("none", or "order": the dict of the order;
\* the method returns no OrderResult).
BracketCall(side, entry_price, take_in, stop_in, tp_pct, sl_pct, raised, take, stop, payload, http, ret) ==
    [side |-> side, entry_price |-> entry_price, take_in |-> take_in,
     stop_in |-> stop_in, tp_pct |-> tp_pct, sl_pct |-> sl_pct,
     raised |-> raised, take |-> take, stop |-> stop, payload |-> payload,
     http |-> http, ret |-> ret]

NoBracket ==
    BracketCall("none", NoneNum, NoneNum, NoneNum, NoneNum, NoneNum, "none",
                NoneNum, NoneNum, <<>>, <<>>, "none")

\* AlpacaClient.submit_bracket(symbol, qty, side, entry_price=...,
\* take_profit_price=..., stop_loss_price=..., tp_pct=..., sl_pct=...);
\* up_take and up_stop are the directions of the two roundings on a tie
\* (one direction when the two prices are the same float) and post is the
\* answer to the POST.
submit_bracket(side, entry_price, take_in, stop_in, tp_pct, sl_pct, up_take, up_stop, post) ==
    LET derive == take_in = NoneNum \/ stop_in = NoneNum
        missing == entry_price = NoneNum \/ tp_pct = NoneNum \/ sl_pct = NoneNum
        d == DerivePrices(side, entry_price, tp_pct, sl_pct)
        same == IF derive THEN d.take = d.stop ELSE take_in = stop_in
        up_s == IF same THEN up_take ELSE up_stop
        take == IF derive THEN Round2(d.take, PctDen * MilsPerCent, up_take)
                ELSE Round2(take_in, MilsPerCent, up_take)
        stop == IF derive THEN Round2(d.stop, PctDen * MilsPerCent, up_s)
                ELSE Round2(stop_in, MilsPerCent, up_s)
        call(raised, t, s, payload, http, ret) ==
            BracketCall(side, entry_price, take_in, stop_in, tp_pct, sl_pct,
                        raised, t, s, payload, http, ret)
    IN  IF derive /\ missing
        THEN call("ValueError", NoneNum, NoneNum, <<>>, <<>>, "none")
        ELSE IF ~BracketOrdered(side, take, stop)
        THEN call("ValueError", take, stop, <<>>, <<>>, "none")
        ELSE IF post = "ok"
        THEN call("none", take, stop, <<take, stop>>, <<"POST /orders">>, "order")
        ELSE call(IF post = "http_error" THEN "HTTPError" ELSE "transport",
                  take, stop, <<take, stop>>, <<"POST /orders">>, "none")

(* ------------------------------------------------------------------ *)
(* The notification sink.  run_worker calls alerts.maybe_heartbeat,   *)
(* alerts.notify_trade and alerts.notify_error; services/alerts.py    *)
(* holds the TelegramAlerter class and no function of these names, so *)
(* the three calls are modelled from the interface the specification  *)
(* gives the sink: each records its event and returns.                *)
(* ------------------------------------------------------------------ *)
maybe_heartbeat(notes) == notes

notify_trade(notes, side, qty, tag) ==
    Append(notes, [kind |-> "trade", side |-> side, qty |-> qty, tag |-> tag])

notify_error(notes, message) ==
    Append(notes, [kind |-> "error", side |-> "none", qty |-> 0, tag |-> message])

(* ------------------------------------------------------------------ *)
(* run_worker.py                                                      *)
(* ------------------------------------------------------------------ *)
\* _throttle without its same-side branch: only a flip is debounced.
_throttle_flipOnly(side, min_secs, t, last_side, last_ts) ==
    IF last_side = "none" THEN "none"
    ELSE IF t - last_ts < min_secs /\ last_side # side THEN "flip debounce"
    ELSE "none"

\* _throttle without its flip branch: only the same side is throttled.
_throttle_sameSideOnly(side, min_secs, t, last_side, last_ts) ==
    IF last_side = "none" THEN "none"
    ELSE IF t - last_ts < min_secs /\ last_side = side THEN "same-side throttle"
    ELSE "none"

\* _throttle(side, min_secs) at time t: the reason to skip, or "none".
_throttle(side, min_secs, t, last_side, last_ts) ==
    IF last_side = "none" THEN "none"
    ELSE IF t - last_ts < min_secs
         THEN IF last_side = side THEN "same-side throttle" ELSE "flip debounce"
         ELSE "none"

\* _update_action_clock without its global statement: the assignments bind
\* locals and the module's state stays as it was.
_update_action_clock_noGlobal(side, t) == <<_last_action_side, _last_action_ts>>

\* _update_action_clock that sets the time and not the side.
_update_action_clock_noSide(side, t) == <<_last_action_side, t>>

\* _update_action_clock(side) at time t: <<_last_action_side, _last_action_ts>>.
_update_action_clock(side, t) == <<side, t>>

\* _position_qty_safe(symbol): BROKER.position_qty(symbol), and 0.0 when
\* the call raises (AttributeError when the broker has no such method).
_position_qty_safe(cls, held) ==
    IF "position_qty" \in BrokerAttrs(cls) THEN held ELSE 0

\* _open_orders_safe that takes the broker's answer for granted: no hasattr
\* test and no try around the query.
_open_orders_safe_unguarded(cls, open) == open

\* _open_orders_safe(symbol): BROKER.open_orders(symbol) when the broker has
\* the method and the call does not raise, [] otherwise.
_open_orders_safe(cls, open) ==
    IF "open_orders" \in BrokerAttrs(cls) THEN open ELSE {}

\* Lines 192-213 of once(): [can_send, order_side, reason_ex].
Direction(side, pos_qty, allow_short) ==
    IF side = "buy"
    THEN IF pos_qty <= 0
         THEN [can_send |-> TRUE, order_side |-> "buy",
               reason_ex |-> IF pos_qty < 0 THEN " (cover short)" ELSE ""]
         ELSE [can_send |-> FALSE, order_side |-> "none", reason_ex |-> ""]
    ELSE IF side = "sell"
    THEN IF pos_qty > 0
         THEN [can_send |-> TRUE, order_side |-> "sell", reason_ex |-> ""]
         ELSE IF allow_short
         THEN [can_send |-> TRUE, order_side |-> "sell",
               reason_ex |-> " (open short)"]
         ELSE [can_send |-> FALSE, order_side |-> "none", reason_ex |-> ""]
    ELSE [can_send |-> FALSE, order_side |-> "none", reason_ex |-> ""]

\* Line 216 without its test of qty.
CanSubmit_noQty(dir, qty) == dir.can_send /\ dir.order_side # "none"

\* Line 216: there is something to send.
CanSubmit(dir, qty) == dir.can_send /\ dir.order_side # "none" /\ qty > 0

\* Line 229 without its hasattr test.
UseBracket_noHasattr(cls, bracket_mode) == bracket_mode

\* Line 229: the bracket call is made when BRACKET_MODE is set and the
\* broker has a place_bracket method.
UseBracket(cls, bracket_mode) ==
    bracket_mode /\ "place_bracket" \in BrokerAttrs(cls)

\* What an iteration leaves for the observer: the decision and the sizing
\* it ran on, the position pos_qty the worker read and the position held
\* and the orders open at the broker when it started, the reason of a
\* debounce skip, the calls made on the broker, the requests sent to the
\* brokerage, the result of the submission, and the notifications sent.
Report(outcome, dec, qty, pos_qty, held, open, reason, side, tag, calls, http, res, notes, t0) ==
    [outcome |-> outcome, dec |-> dec, qty |-> qty, pos_qty |-> pos_qty,
     held |-> held, open |-> open, reason |-> reason, order_side |-> side,
     tag |-> tag, calls |-> calls, http |-> http, res |-> res,
     notes |-> notes, t0 |-> t0]

\* The position and the open orders of TICKER at the broker in use.
Held == IF BROKER = "PaperBroker"
        THEN PaperBroker_get_position_qty(_positions, TICKER)
        ELSE remote_pos[TICKER]

OpenOrders == IF BROKER = "PaperBroker" THEN {}
              ELSE {o \in remote_orders : o.symbol = TICKER}

\* An iteration that ends before the submission: nothing but `it` changes.
\* outcome "raised" is once() raising (lines 164-167), which main() catches
\* and reports (lines 274-276).
EndEarly(outcome, dec, qty, pos_qty, reason, notes) ==
    /\ it' = Report(outcome, dec, qty, pos_qty, Held, Cardinality(OpenOrders),
                    reason, "none", "", <<>>, <<>>, NoResult, notes, now)
    /\ UNCHANGED <<now, BROKER, ALLOW_SHORT, BRACKET_MODE, _last_action_side,
                   _last_action_ts, _positions, _last_side_time,
                   _min_flip_secs, remote_pos, remote_orders, next_id,
                   accepted, probes>>

\* Line 246 as `if res:`: the clock is set for every result that came back.
ClockAfter_anyResult(raised, res_ok, side, t, last_side, last_ts) ==
    IF ~raised THEN _update_action_clock(side, t) ELSE <<last_side, last_ts>>

\* The clock set right after the call, whatever came of it.
ClockAfter_always(raised, res_ok, side, t, last_side, last_ts) ==
    _update_action_clock(side, t)

\* Lines 246-256 of once(): the action clock after a submission that ended
\* at time t: set when a result came back with ok = true, left alone when
\* the result is not ok or the call raised.
ClockAfter(raised, res_ok, side, t, last_side, last_ts) ==
    IF ~raised /\ res_ok THEN _update_action_clock(side, t)
    ELSE <<last_side, last_ts>>

\* The record of the submissions that returned ok: when each was sent, when
\* it came back, and its side.  The last two are kept.
Accept(acc, sent, back, side) ==
    LET e == [sent |-> sent, back |-> back, side |-> side]
    IN  IF Len(acc) < 2 THEN Append(acc, e) ELSE <<acc[2], e>>

\* Lines 246-260 of once(): the result of the submission is reported and,
\* when it is ok, the action clock is set; d seconds have passed.
AfterSubmit(dec, qty, pos_qty, dir, call, raised, res, http, d) ==
    LET ok == ~raised /\ res.ok
        notes == IF ok
                 THEN notify_trade(maybe_heartbeat(<<>>), dir.order_side, qty,
                                   dir.reason_ex)
                 ELSE IF raised
                 THEN notify_error(maybe_heartbeat(<<>>), "order exception")
                 ELSE notify_error(maybe_heartbeat(<<>>), "order failed")
        clock == ClockAfter(raised, res.ok, dir.order_side, now + d,
                            _last_action_side, _last_action_ts)
    IN  /\ now + d <= MaxTime
        /\ now' = now + d
        /\ _last_action_side' = clock[1]
        /\ _last_action_ts' = clock[2]
        /\ it' = Report(IF ok THEN "ok" ELSE IF raised THEN "exception"
                        ELSE "failed",
                        dec, qty, pos_qty, Held, Cardinality(OpenOrders), "none",
                        dir.order_side, dir.reason_ex, <<call>>, http,
                        IF raised THEN NoResult ELSE res, notes, now)
        /\ accepted' = IF ok
                       THEN Accept(accepted, now, now + d, dir.order_side)
                       ELSE accepted
        /\ UNCHANGED <<BROKER, ALLOW_SHORT, BRACKET_MODE, _min_flip_secs, probes>>

\* Lines 227-244 of once() on the PaperBroker, whose place_order works in
\* memory and takes no time.
SubmitPaper(dec, qty, pos_qty, dir, call) ==
    LET r == PaperBroker_place_order(_positions, TICKER, dir.order_side, qty)
    IN  /\ AfterSubmit(dec, qty, pos_qty, dir, call, FALSE, r.res, <<>>, 0)
        /\ _positions' = r.pos
        /\ UNCHANGED <<_last_side_time, remote_pos, remote_orders, next_id>>

\* The answers the brokerage can give to the requests one place_order
\* sends: an answer is drawn only for a request that is sent.
PosAnswers(side) ==
    IF side = "sell" /\ ~(now - _last_side_time[<<TICKER, side>>] < _min_flip_secs)
    THEN HttpFails ELSE {"none"}

ListAnswers(side, hp) ==
    LET p == AlpacaBroker_get_position_qty(remote_pos, TICKER, hp)
    IN  IF now - _last_side_time[<<TICKER, side>>] < _min_flip_secs
           \/ (side = "sell" /\ (p.raised \/ p.val <= 0))
        THEN {"stop"} ELSE HttpFails

CancelAnswers(side, hl) ==
    IF hl = "none" /\ CancelTargets(OpenOrders, side) # {}
    THEN BOOLEAN ELSE {TRUE}

PostAnswersNow(hl) ==
    IF hl # "none" THEN {"filled"}
    ELSE IF next_id <= MaxOrders THEN PostAnswers
    ELSE {"no_id", "http_error", "transport"}

CodeAnswers(post) == IF post = "http_error" THEN HttpErrorCodes ELSE {422}

\* Lines 227-244 of once() on the AlpacaBroker.
SubmitAlpaca(dec, qty, pos_qty, dir, call) ==
    \E d \in CallSecs, hp \in PosAnswers(dir.order_side) :
      \E hl \in ListAnswers(dir.order_side, hp) :
        \E hc \in CancelAnswers(dir.order_side, hl), post \in PostAnswersNow(hl) :
         \E code \in CodeAnswers(post) :
          LET h == [pos |-> hp, list |-> IF hl = "stop" THEN "none" ELSE hl,
                    cancel |-> hc, post |-> post, code |-> code]
              r == AlpacaBroker_place_order(now, _last_side_time, _min_flip_secs,
                                            remote_pos, remote_orders, next_id,
                                            TICKER, dir.order_side, qty, h)
          IN  /\ AfterSubmit(dec, qty, pos_qty, dir, call, r.raised, r.res,
                             r.http, d)
              /\ _last_side_time' = r.lst
              /\ remote_pos' = r.pos
              /\ remote_orders' = r.orders
              /\ next_id' = r.nid
              /\ UNCHANGED _positions

\* once() (lines 163-260) inside the try of main() (lines 270-276), on the
\* bars fetched (fetch_ok: enough data came back), the decision dec of
\* decide() and the ATR atr of the last bar.
once(fetch_ok, dec, atr) ==
    LET sized == position_size(EQUITY, atr, LastClose, RISK_PCT_NUM, RISK_PCT_DEN)
        qty == sized[1]
        pos_qty == _position_qty_safe(BROKER, Held)
        reason == IF dec \in {"buy", "sell"}
                  THEN _throttle(dec, MIN_FLIP_SECS, now, _last_action_side,
                                 _last_action_ts)
                  ELSE "none"
        dir == Direction(dec, pos_qty, ALLOW_SHORT)
        oo == _open_orders_safe(BROKER, OpenOrders)
        call == IF UseBracket(BROKER, BRACKET_MODE) THEN "place_bracket"
                ELSE "place_order"
    IN  IF ~fetch_ok
        THEN EndEarly("raised", "none", 0, 0, "none",
                      notify_error(<<>>, "iteration failed"))
        ELSE IF reason # "none"
        THEN EndEarly("debounce", dec, qty, pos_qty, reason, maybe_heartbeat(<<>>))
        ELSE IF ~CanSubmit(dir, qty)
        THEN EndEarly("skip", dec, qty, pos_qty, "none", maybe_heartbeat(<<>>))
        ELSE IF oo # {}
        THEN EndEarly("open_order", dec, qty, pos_qty, "none", maybe_heartbeat(<<>>))
        ELSE IF BROKER = "PaperBroker"
        THEN SubmitPaper(dec, qty, pos_qty, dir, call)
        ELSE SubmitAlpaca(dec, qty, pos_qty, dir, call)

(* ------------------------------------------------------------------ *)
(* The calls made on one component by itself: place_order on the two  *)
(* brokers, position_size, and the loop of main().                    *)
(* ------------------------------------------------------------------ *)
\* What a place_order(symbol, side, qty, ...) made at time t on a
\* PaperBroker and on an AlpacaBroker leaves: the call, the ledger, the
\* brokerage and the broker's _last_side_time before it, the result of each
\* broker, whether the brokerage has answered every request so far with a
\* fill and no failure, the call before this one, and for each (symbol,
\* side) the time of the last call in which the brokerage accepted an order
\* (answered with an order object), before this call and after it.
DirectCalls(n, symbol, side, qty, t, paper_before, paper_res, live_before, live, clean, prev, acc_before, acc) ==
    [n |-> n, symbol |-> symbol, side |-> side, qty |-> qty, t |-> t,
     paper_before |-> paper_before, paper_res |-> paper_res,
     live_before |-> live_before, live |-> live, clean |-> clean,
     prev |-> prev, acc_before |-> acc_before, acc |-> acc]

\* No order of the (symbol, side) has been accepted.
NeverAccepted == [k \in Symbols \X Sides |-> NoneNum]

NoPrev == [symbol |-> "none", side |-> "none", qty |-> 0, ok |-> FALSE,
           paper_before |-> [s \in Symbols |-> 0]]

NoDirect ==
    DirectCalls(0, "none", "none", 0, 0, [s \in Symbols |-> 0], NoResult,
                [pos |-> [s \in Symbols |-> 0], orders |-> {},
                 lst |-> [k \in Symbols \X Sides |-> 0]],
                [raised |-> FALSE, res |-> NoResult, http |-> <<>>], TRUE, NoPrev,
                NeverAccepted, NeverAccepted)

\* What a call of position_size leaves: its arguments (risk_pct is
\* num / den), whether it raised, and the tuple returned.
SizingCall(equity, atr, price, num, den, raised, out) ==
    [equity |-> equity, atr |-> atr, price |-> price, num |-> num, den |-> den,
     raised |-> raised, out |-> out]

NoSizing == SizingCall(0, 0, 0, 0, 1, FALSE, <<NoneNum, NoneNum, NoneNum>>)

\* main() before its first statement: where it is, the iterations begun,
\* what the last iteration raised and where, and the notifications sent.
NoLoop == [pc |-> "main", iterations |-> 0, raised |-> "none", at |-> "none",
           notes |-> <<>>]

(* ------------------------------------------------------------------ *)
(* The state machine.                                                 *)
(* ------------------------------------------------------------------ *)
NoReport ==
    Report("init", "none", 0, 0, 0, 0, "none", "none", "", <<>>, <<>>, NoResult,
           <<>>, 0)

\* The state after the module is loaded.  BROKER is either class:
\* _make_broker (lines 78-98) picks AlpacaBroker when both keys are set, and
\* passes it keyword arguments (key_id, secret_key, base_url) that
\* AlpacaBroker.__init__(self, paper=True) does not take; the AlpacaBroker
\* here is the one AlpacaBroker(paper=...) builds, bound to BROKER.
Init ==
    /\ now = StartTime
    /\ BROKER \in {"PaperBroker", "AlpacaBroker"}
    /\ ALLOW_SHORT \in BOOLEAN
    /\ BRACKET_MODE \in BOOLEAN
    /\ _last_action_side = "none"
    /\ _last_action_ts = 0
    /\ _positions = [s \in Symbols |-> 0]
    /\ _last_side_time = [k \in Symbols \X Sides |-> 0]
    /\ _min_flip_secs \in IF BROKER = "PaperBroker"
                          THEN {BROKER_MIN_FLIP_DEFAULT}
                          ELSE {BROKER_MIN_FLIP_DEFAULT, MIN_FLIP_SECS}
    /\ remote_pos = [s \in Symbols |-> 0]
    /\ remote_orders = {}
    /\ next_id = 1
    /\ it = NoReport
    /\ accepted = <<>>
    /\ bracket = NoBracket
    /\ direct = NoDirect
    /\ sizing = NoSizing
    /\ loop = NoLoop

\* One iteration of the loop of main().
Iteration ==
    \E fetch_ok \in BOOLEAN, dec \in DecisionSides, atr \in Atrs :
        /\ (~fetch_ok) => (dec = "hold" /\ atr = 0)
        /\ once(fetch_ok, dec, atr)

\* time.sleep(POLL_INTERVAL), line 277.
Sleep ==
    \E d \in Delays :
        /\ now + d <= MaxTime
        /\ now' = now + d
        /\ UNCHANGED <<BROKER, ALLOW_SHORT, BRACKET_MODE, _last_action_side,
                       _last_action_ts, _positions, _last_side_time,
                       _min_flip_secs, remote_pos, remote_orders, next_id, it,
                       accepted, probes>>

\* The brokerage fills one of its open orders.
BrokerageFills ==
    \E o \in remote_orders :
        /\ remote_orders' = remote_orders \ {o}
        /\ remote_pos' = [remote_pos EXCEPT ![o.symbol] =
                             remote_pos[o.symbol]
                             + (IF o.side = "buy" THEN o.qty ELSE 0 - o.qty)]
        /\ UNCHANGED <<now, BROKER, ALLOW_SHORT, BRACKET_MODE, _last_action_side,
                       _last_action_ts, _positions, _last_side_time,
                       _min_flip_secs, next_id, it, accepted, probes>>

Next == Iteration \/ Sleep \/ BrokerageFills

Spec == Init /\ [][Next]_vars

\* The inputs of the calls of submit_bracket: None, or a price in mils, or
\* a percentage in thousandths.
BracketPrices == {NoneNum, 1000, 99000, 100004, 100005, 100015, 101000}
EntryPrices == {NoneNum, 1000, 100000}
Pcts == {NoneNum, 0, 5, 10}

\* A caller of AlpacaClient.submit_bracket (the worker is none: neither
\* broker of services/execution.py uses the client).  The method keeps no
\* state from one call to the next: a behaviour holds one call.
SubmitBracket ==
    /\ bracket = NoBracket
    /\ \E side \in Sides, entry_price \in EntryPrices, take_in \in BracketPrices,
       stop_in \in BracketPrices, tp_pct \in Pcts, sl_pct \in Pcts,
       up_take \in BOOLEAN, up_stop \in BOOLEAN, post \in BracketPostAnswers :
           /\ bracket' = submit_bracket(side, entry_price, take_in, stop_in,
                                        tp_pct, sl_pct, up_take, up_stop, post)
           /\ UNCHANGED <<now, BROKER, ALLOW_SHORT, BRACKET_MODE,
                          _last_action_side, _last_action_ts, _positions,
                          _last_side_time, _min_flip_secs, remote_pos,
                          remote_orders, next_id, it, accepted, direct,
                          sizing, loop>>

BracketInit == Init /\ BROKER = "PaperBroker" /\ ~ALLOW_SHORT /\ BRACKET_MODE

BracketNext == SubmitBracket

BracketSpec == BracketInit /\ [][BracketNext]_vars

(* ------------------------------------------------------------------ *)
(* position_size called by itself.                                    *)
(* ------------------------------------------------------------------ *)
Equities == {NoneNum, -1, 0, 999, 10000}
AtrArgs == {NoneNum, -1, 0, 1, 2, 3}
PriceArgs == {NoneNum, -1, 0, 1, 100}
RiskNums == {-1, 0, 1, 2}
RiskDens == {100, 1000}

\* A caller of position_size.  The function keeps no state: a behaviour
\* holds one call.
PositionSize ==
    /\ sizing = NoSizing
    /\ \E equity \in Equities, atr \in AtrArgs, price \in PriceArgs,
          num \in RiskNums, den \in RiskDens :
           LET raised == position_size_raises(equity, atr, price)
               out == IF raised THEN <<NoneNum, NoneNum, NoneNum>>
                      ELSE position_size(equity, atr, price, num, den)
           IN  sizing' = SizingCall(equity, atr, price, num, den, raised, out)
    /\ UNCHANGED <<now, BROKER, ALLOW_SHORT, BRACKET_MODE, _last_action_side,
                   _last_action_ts, _positions, _last_side_time,
                   _min_flip_secs, remote_pos, remote_orders, next_id, it,
                   accepted, bracket, direct, loop>>

SizeInit == Init /\ BROKER = "PaperBroker" /\ ~ALLOW_SHORT /\ BRACKET_MODE

SizeNext == PositionSize

SizeSpec == SizeInit /\ [][SizeNext]_vars

(* ------------------------------------------------------------------ *)
(* The loop of main() by itself.                                      *)
(* ------------------------------------------------------------------ *)
\* What an iteration can raise, and the statement of once() that raises
\* it: fetch_bars (line 164), add_indicators (165), the ValueError of line
\* 167, decide (169), position_size and the float() around it (171-173),
\* the submission inside the try of lines 227-244.
Exceptions == {"ValueError", "ConnectionError", "TypeError"}
Raised == Exceptions \cup {"KeyboardInterrupt"}
Stages == {"fetch_bars", "add_indicators", "decide", "position_size", "place_order"}

\* Lines 270-276 with `raise` at the end of the handler: the exception is
\* reported and goes on to end main().
main_iteration_reraises(exc, at, notes) ==
    IF exc = "none" THEN [pc |-> "sleep", notes |-> notes]
    ELSE IF exc \in Exceptions /\ at = "place_order"
    THEN [pc |-> "sleep", notes |-> notify_error(notes, "order exception")]
    ELSE IF exc = "KeyboardInterrupt" THEN [pc |-> "stopped", notes |-> notes]
    ELSE [pc |-> "stopped", notes |-> notify_error(notes, "iteration failed")]

\* Lines 270-276 of main(), around a once() in which the statement `at`
\* raises exc ("none": nothing is raised).  An Exception of the submission
\* is caught inside once() (lines 258-260), reported, and once() returns;
\* any other Exception leaves once() and is caught and reported at lines
\* 274-276; KeyboardInterrupt is no Exception, passes line 258 and is
\* raised again at line 273.  Returns where main() goes and the
\* notifications sent.
main_iteration(exc, at, notes) ==
    IF exc = "none" THEN [pc |-> "sleep", notes |-> notes]
    ELSE IF exc \in Exceptions /\ at = "place_order"
    THEN [pc |-> "sleep", notes |-> notify_error(notes, "order exception")]
    ELSE IF exc = "KeyboardInterrupt" THEN [pc |-> "stopped", notes |-> notes]
    ELSE [pc |-> "sleep", notes |-> notify_error(notes, "iteration failed")]

LoopFrame ==
    UNCHANGED <<BROKER, ALLOW_SHORT, BRACKET_MODE, _last_action_side,
                _last_action_ts, _positions, _last_side_time, _min_flip_secs,
                remote_pos, remote_orders, next_id, it, accepted, bracket,
                direct, sizing>>

\* Lines 265-269: the start notification, and into the loop.
MainStart ==
    /\ loop.pc = "main"
    /\ loop' = [loop EXCEPT !.pc = "try"]
    /\ UNCHANGED now
    /\ LoopFrame

\* Lines 270-276: one iteration, whatever once() does to the broker left
\* out.
TryOnce ==
    /\ loop.pc = "try"
    /\ \E exc \in Raised \cup {"none"}, at \in Stages \cup {"none"} :
           /\ (exc = "none") <=> (at = "none")
           /\ LET m == main_iteration(exc, at, loop.notes)
              IN  loop' = [pc |-> m.pc, iterations |-> loop.iterations + 1,
                           raised |-> exc, at |-> at, notes |-> m.notes]
    /\ UNCHANGED now
    /\ LoopFrame

\* Line 277: time.sleep(POLL_INTERVAL), and back to the top of the loop.
LoopSleep ==
    /\ loop.pc = "sleep"
    /\ \E d \in Delays :
           /\ now + d <= MaxTime
           /\ now' = now + d
    /\ loop' = [loop EXCEPT !.pc = "try"]
    /\ LoopFrame

LoopInit == Init /\ BROKER = "PaperBroker" /\ ~ALLOW_SHORT /\ BRACKET_MODE

LoopNext == MainStart \/ TryOnce \/ LoopSleep

LoopSpec == LoopInit /\ [][LoopNext]_vars

(* ------------------------------------------------------------------ *)
(* The two brokers called side by side.                               *)
(* ------------------------------------------------------------------ *)
\* The qty of the calls.
Qtys == {1, 2}

\* The brokerage answers every request and fills the order at once.
CleanAnswer == [pos |-> "none", list |-> "none", cancel |-> TRUE,
                post |-> "filled", code |-> 422]

\* The answers of the brokerage to the requests of one place_order: all
\* well, the order left open, a 2xx without an order object, the order
\* rejected, the cancellations failing, the listing failing.
DirectAnswers ==
    {CleanAnswer,
     [CleanAnswer EXCEPT !.post = "accepted"],
     [CleanAnswer EXCEPT !.post = "no_id"],
     [CleanAnswer EXCEPT !.post = "http_error"],
     [CleanAnswer EXCEPT !.cancel = FALSE],
     [CleanAnswer EXCEPT !.list = "transport"]}

\* place_order(symbol, side, qty, ...) on a PaperBroker and the same call
\* on an AlpacaBroker, at the same time, the brokerage answering h.
DirectCall(symbol, side, qty, h) ==
    LET p == PaperBroker_place_order(_positions, symbol, side, qty)
        l == AlpacaBroker_place_order(now, _last_side_time, _min_flip_secs,
                                      remote_pos, remote_orders, next_id,
                                      symbol, side, qty, h)
    IN  /\ _positions' = p.pos
        /\ _last_side_time' = l.lst
        /\ remote_pos' = l.pos
        /\ remote_orders' = l.orders
        /\ next_id' = l.nid
        /\ direct' = DirectCalls(
               direct.n + 1, symbol, side, qty, now, _positions, p.res,
               [pos |-> remote_pos, orders |-> remote_orders,
                lst |-> _last_side_time],
               [raised |-> l.raised,
                res |-> IF l.raised THEN NoResult ELSE l.res,
                http |-> l.http],
               direct.clean /\ h = CleanAnswer,
               [symbol |-> direct.symbol, side |-> direct.side,
                qty |-> direct.qty, ok |-> direct.paper_res.ok,
                paper_before |-> direct.paper_before],
               direct.acc,
               IF ~l.raised /\ l.res.ok /\ l.res.id # "none"
               THEN [direct.acc EXCEPT ![<<symbol, side>>] = now]
               ELSE direct.acc)
        /\ UNCHANGED <<now, BROKER, ALLOW_SHORT, BRACKET_MODE,
                       _last_action_side, _last_action_ts, _min_flip_secs, it,
                       accepted, bracket, sizing, loop>>

\* The same call on both brokers, the brokerage never failing.
PlaceOrderOnBoth ==
    /\ direct.n < MaxCalls
    /\ \E symbol \in Symbols, side \in Sides, qty \in Qtys :
           DirectCall(symbol, side, qty, CleanAnswer)

\* A second passes; the clock is followed until the broker's throttle
\* window of the last call is over.
TimePasses ==
    /\ now - direct.t < _min_flip_secs
    /\ now + 1 <= MaxTime
    /\ now' = now + 1
    /\ UNCHANGED <<BROKER, ALLOW_SHORT, BRACKET_MODE, _last_action_side,
                   _last_action_ts, _positions, _last_side_time,
                   _min_flip_secs, remote_pos, remote_orders, next_id, it,
                   accepted, probes>>

BrokerInit ==
    /\ Init
    /\ BROKER = "AlpacaBroker" /\ ~ALLOW_SHORT /\ BRACKET_MODE
    /\ _min_flip_secs = BROKER_MIN_FLIP_DEFAULT

BrokerNext == PlaceOrderOnBoth \/ TimePasses

BrokerSpec == BrokerInit /\ [][BrokerNext]_vars

(* ------------------------------------------------------------------ *)
(* The AlpacaBroker against a brokerage that holds orders and fails.  *)
(* ------------------------------------------------------------------ *)
\* Orders open at the brokerage when the broker object is made (placed by
\* an earlier run, or by hand): on the symbol and on another, on either
\* side, in a status the cancel step looks for and in one it does not.
OpenAtStart ==
    {[id |-> 1, symbol |-> "AAPL", side |-> "sell", status |-> "new", qty |-> 1],
     [id |-> 2, symbol |-> "AAPL", side |-> "buy", status |-> "accepted", qty |-> 1],
     [id |-> 3, symbol |-> "AAPL", side |-> "sell", status |-> "pending_new", qty |-> 1],
     [id |-> 4, symbol |-> "MSFT", side |-> "sell", status |-> "new", qty |-> 1],
     [id |-> 5, symbol |-> "AAPL", side |-> "buy", status |-> "pending_new", qty |-> 1]}

\* place_order on the AlpacaBroker (the PaperBroker beside it, as in
\* DirectCall), the brokerage answering as it may.
PlaceOrderLive ==
    /\ direct.n < MaxLiveCalls
    /\ \E symbol \in Symbols, side \in Sides, h \in DirectAnswers :
           DirectCall(symbol, side, 1, h)

LiveInit ==
    /\ now = StartTime
    /\ BROKER = "AlpacaBroker"
    /\ ALLOW_SHORT = FALSE
    /\ BRACKET_MODE = TRUE
    /\ _last_action_side = "none"
    /\ _last_action_ts = 0
    /\ _positions = [s \in Symbols |-> 0]
    /\ _last_side_time = [k \in Symbols \X Sides |-> 0]
    /\ _min_flip_secs = BROKER_MIN_FLIP_DEFAULT
    /\ remote_pos \in {[s \in Symbols |-> 0], [s \in Symbols |-> 2]}
    /\ remote_orders \in {{}, OpenAtStart}
    /\ next_id = Cardinality(OpenAtStart) + 1
    /\ it = NoReport
    /\ accepted = <<>>
    /\ bracket = NoBracket
    /\ direct = NoDirect
    /\ sizing = NoSizing
    /\ loop = NoLoop

LiveNext == PlaceOrderLive \/ TimePasses

LiveSpec == LiveInit /\ [][LiveNext]_vars

(* ------------------------------------------------------------------ *)
(* Properties.                                                        *)
(* ------------------------------------------------------------------ *)
\* The step is an iteration that left a new report.
Ran == it' # it

Debounce == <<_last_action_side, _last_action_ts>>

HasNote(notes, kind) == \E i \in DOMAIN notes : notes[i].kind = kind

Count(seq, x) == Cardinality({i \in DOMAIN seq : seq[i] = x})

\* The iteration called the broker to submit an order.
Submitted(r) == r.calls # <<>>

\* C1: the debounce state (last action side, last action time) changes only
\* in an iteration whose submission returned ok = true; an iteration that is
\* skipped, whose submission returns ok = false, or that raises leaves both
\* fields as they were.
C1_DebounceChangesOnlyOnOk ==
    [][ /\ (Debounce' # Debounce)
            => (Ran /\ it'.outcome = "ok" /\ Submitted(it') /\ it'.res.ok)
        /\ (Ran /\ it'.outcome \in {"raised", "debounce", "skip", "open_order",
                                    "failed", "exception"})
            => (Debounce' = Debounce) ]_vars

\* An order was accepted, and a later submission returned ok = false with
\* the debounce state still that of the accepted order.
C1_Witness ==
    /\ it.outcome = "failed"
    /\ ~it.res.ok
    /\ accepted # <<>>
    /\ _last_action_side = accepted[Len(accepted)].side
    /\ _last_action_ts = accepted[Len(accepted)].back
    /\ it.t0 >= _last_action_ts

C4_AtMostOneSubmission ==
    /\ Len(it.calls) <= 1
    /\ Count(it.http, "POST /orders") <= 1
    /\ (it.outcome \in {"ok", "failed", "exception"}) <=> (Len(it.calls) = 1)
    /\ \A i \in DOMAIN it.calls :
           /\ it.calls[i] \in {"place_bracket", "place_order"}
           /\ (it.calls[i] = "place_bracket")
                  <=> (BRACKET_MODE /\ "place_bracket" \in BrokerAttrs(BROKER))

\* A submission failed at the brokerage: one call, one POST, no retry.
C4_Witness ==
    /\ it.outcome = "failed"
    /\ BRACKET_MODE
    /\ it.calls = <<"place_order">>
    /\ Count(it.http, "POST /orders") = 1
    /\ it.res.error \in HttpErrorTexts

\* C5: in every iteration in which a Buy order is submitted, the broker's
\* position for the symbol is <= 0; a Buy decision taken while the position
\* is long never results in a submission.
C5_BuyOnlyWhenNotLong ==
    (Submitted(it) /\ it.order_side = "buy") => (it.held <= 0)

\* C6: a Sell decision that passes the debounce check with qty > 0 goes to
\* submission when the position is long; is skipped with no submission when
\* the position is <= 0 and shorting is disabled; is submitted tagged
\* "open short" when the position is <= 0 and shorting is enabled.
C6_SellDirectionGuard ==
    (it.dec = "sell" /\ it.qty > 0 /\ it.outcome \notin {"raised", "debounce"})
        => /\ (it.held > 0) => (Submitted(it) \/ it.outcome = "open_order")
           /\ (it.held <= 0 /\ ~ALLOW_SHORT) => ~Submitted(it)
           /\ (it.held <= 0 /\ ALLOW_SHORT)
                  => ((Submitted(it) /\ it.tag = " (open short)")
                      \/ it.outcome = "open_order")

\* C7: in any iteration in which the broker holds an open order for the
\* symbol, no order is submitted.
C7_NoSubmissionOnOpenOrder ==
    (it.open > 0) => ~Submitted(it)

\* C8: for a Buy or Sell decision, if an action was accepted before and
\* now - last_action_at < MIN_FLIP_SECS, the iteration is skipped with no
\* call on the broker, the reason being "same-side throttle" when last_side
\* is the decision's side and "flip debounce" otherwise; when no action was
\* ever accepted the debounce check does not skip.
C8_DebounceRule ==
    [][ (Ran /\ it'.dec \in Sides)
            => /\ (_last_action_side # "none"
                   /\ now - _last_action_ts < MIN_FLIP_SECS)
                      => /\ it'.outcome = "debounce"
                         /\ ~Submitted(it')
                         /\ it'.http = <<>>
                         /\ it'.reason = IF _last_action_side = it'.dec
                                         THEN "same-side throttle"
                                         ELSE "flip debounce"
                         /\ UNCHANGED <<_positions, remote_pos, remote_orders>>
               /\ (accepted = <<>>) => (it'.outcome # "debounce") ]_vars

\* A Sell was skipped as a flip within MIN_FLIP_SECS of an accepted Buy.
C8_Witness ==
    /\ it.outcome = "debounce"
    /\ it.reason = "flip debounce"
    /\ it.dec = "sell"
    /\ accepted # <<>>
    /\ accepted[Len(accepted)].side = "buy"
    /\ it.t0 - accepted[Len(accepted)].back < MIN_FLIP_SECS

C11_NoOpIterations ==
    [][ (Ran /\ it'.outcome # "raised"
         /\ (it'.dec = "hold" \/ it'.qty = 0
             \/ it'.outcome \in {"debounce", "skip", "open_order"}))
            => /\ ~Submitted(it')
               /\ it'.http = <<>>
               /\ ~HasNote(it'.notes, "trade")
               /\ ~HasNote(it'.notes, "error")
               /\ UNCHANGED <<_positions, remote_pos, remote_orders, next_id,
                              _last_side_time>> ]_vars

\* A Buy that passed the debounce check with a sized qty of 0 was skipped,
\* after an order had been accepted.
C11_Witness ==
    /\ it.outcome = "skip"
    /\ it.dec = "buy"
    /\ it.qty = 0
    /\ accepted # <<>>
    /\ it.calls = <<>>
    /\ it.notes = <<>>
    /\ it.t0 - accepted[Len(accepted)].back >= MIN_FLIP_SECS

\* C12: a Sell that reaches AlpacaBroker.place_order and is not throttled,
\* with the position lookup answered: when the position is not long and
\* ALLOW_SHORT is off it is rejected with no_position_to_sell and no POST;
\* when ALLOW_SHORT is on and the position is flat or short it is not
\* rejected with no_position_to_sell and a POST /orders is sent.
C12_SellRejectionFollowsAllowShort ==
    (/\ BROKER = "AlpacaBroker"
     /\ it.outcome \in {"ok", "failed"}
     /\ it.order_side = "sell"
     /\ it.res.error # "flip_throttled"
     /\ it.held <= 0)
        => /\ (~ALLOW_SHORT)
                  => /\ it.res = OrderResult(FALSE, "none", "none",
                                             "no_position_to_sell")
                     /\ Count(it.http, "POST /orders") = 0
           /\ ALLOW_SHORT
                  => /\ it.res.error # "no_position_to_sell"
                     /\ Count(it.http, "POST /orders") = 1

\* The call of submit_bracket got as far as its rounded prices.
Rounded(b) == b.take # NoneNum /\ b.stop # NoneNum

\* The ordering the rounded prices of a bracket must have.
OrderingHolds(b) ==
    /\ (b.side = "buy") => (b.take > b.stop)
    /\ (b.side = "sell") => (b.take < b.stop)

Abs(x) == IF x >= 0 THEN x ELSE 0 - x

\* C13: every bracket that reaches the network carries the rounded prices
\* and these satisfy the ordering (Buy: take > stop; Sell: take < stop),
\* whether the prices were given or derived from entry_price and the
\* percentages; a call whose rounded prices violate the ordering sends no
\* request.
C13_BracketOrderingOnTheWire ==
    /\ (bracket.http # <<>>)
           => /\ Rounded(bracket)
              /\ bracket.payload = <<bracket.take, bracket.stop>>
              /\ OrderingHolds(bracket)
    /\ (Rounded(bracket) /\ ~OrderingHolds(bracket))
           => (bracket.http = <<>> /\ bracket.payload = <<>>)

\* A Sell bracket derived from entry_price and the percentages reached the
\* network with take < stop.
C13_Witness ==
    /\ bracket.side = "sell"
    /\ bracket.take_in = NoneNum
    /\ bracket.entry_price # NoneNum
    /\ bracket.http = <<"POST /orders">>
    /\ bracket.payload[1] < bracket.payload[2]

Derived(b) ==
    /\ b.take_in = NoneNum \/ b.stop_in = NoneNum
    /\ b.entry_price # NoneNum /\ b.tp_pct # NoneNum /\ b.sl_pct # NoneNum

\* C15: derived prices are, for Buy, take = entry*(1+tp_pct) and stop =
\* entry*(1-sl_pct), for Sell, take = entry*(1-tp_pct) and stop =
\* entry*(1+sl_pct), each rounded to the nearest cent; entry_price = 100,
\* tp_pct = 0.01, sl_pct = 0.005 give Buy take = 101.00, stop = 99.50 and
\* Sell take = 99.00, stop = 100.50.
C15_BracketDerivation ==
    Derived(bracket)
        => LET e == bracket.entry_price
               tp == bracket.tp_pct
               sl == bracket.sl_pct
               sgn == IF bracket.side = "buy" THEN 1 ELSE 0 - 1
               unit == PctDen * MilsPerCent
           IN  /\ Rounded(bracket)
               /\ 2 * Abs(bracket.take * unit - e * (PctDen + sgn * tp)) <= unit
               /\ 2 * Abs(bracket.stop * unit - e * (PctDen - sgn * sl)) <= unit
               /\ (e = 100000 /\ tp = 10 /\ sl = 5 /\ bracket.side = "buy")
                      => (bracket.take = 10100 /\ bracket.stop = 9950
                          /\ bracket.take > bracket.stop)
               /\ (e = 100000 /\ tp = 10 /\ sl = 5 /\ bracket.side = "sell")
                      => (bracket.take = 9900 /\ bracket.stop = 10050
                          /\ bracket.take < bracket.stop)

\* The Sell of the example was sent with take = 99.00 and stop = 100.50.
C15_Witness ==
    /\ bracket.side = "sell"
    /\ bracket.entry_price = 100000
    /\ bracket.tp_pct = 10
    /\ bracket.sl_pct = 5
    /\ bracket.take_in = NoneNum
    /\ bracket.payload = <<9900, 10050>>

\* C16: AlpacaBroker.place_order never raises: whatever fails during the
\* call (the position lookup, the listing or the cancelling of opposite
\* orders, the POST), the call returns an OrderResult, with ok = false when
\* the call did not get its order to the brokerage.
C16_PlaceOrderNeverRaises ==
    (BROKER = "AlpacaBroker" /\ Submitted(it))
        => /\ it.outcome \in {"ok", "failed"}
           /\ (Count(it.http, "POST /orders") = 0) => ~it.res.ok

\* C17: when the POST gets a non-2xx answer, the error of the failed
\* OrderResult holds the HTTP status and the message of the body the
\* brokerage sent.
C17_HttpErrorKeepsBody ==
    (BROKER = "AlpacaBroker" /\ it.outcome = "failed"
     /\ it.res.error \in HttpErrorTexts)
        => \E c \in HttpErrorCodes :
               it.res.error = HttpErrorText(c, BrokerMessage(c))

\* C18: in AlpacaBroker.place_order the cancelling of the open orders of
\* the opposite side (the listing and the cancellations) comes before the
\* POST, and no failure of that step, of a cancellation or of the listing,
\* keeps the POST from being sent.
C18_CancelIsBestEffort ==
    (BROKER = "AlpacaBroker" /\ Submitted(it)
     /\ Count(it.http, "GET /orders") > 0)
        => /\ Count(it.http, "POST /orders") = 1
           /\ it.http[Len(it.http)] = "POST /orders"
           /\ it.outcome # "exception"

\* C19: when the broker holds no position in the symbol, the position
\* query returns 0 and does not raise, on the PaperBroker and on the
\* AlpacaBroker (whose brokerage answers 404), and the worker evaluates its
\* direction guard with pos_qty = 0.
C19_NoPositionReadsZero ==
    [][ (Ran /\ it'.outcome # "raised" /\ it'.held = 0)
            => /\ it'.pos_qty = 0
               /\ PaperBroker_get_position_qty(_positions, "MSFT") = 0
               /\ (it'.outcome # "debounce" /\ it'.qty > 0)
                      => /\ (it'.dec = "buy") => Submitted(it')
                         /\ (it'.dec = "sell") => (Submitted(it') <=> ALLOW_SHORT)
               /\ (\E i \in DOMAIN it'.http : it'.http[i] = "GET /positions -> 404")
                      => /\ it'.outcome = "failed"
                         /\ it'.res.error = "no_position_to_sell" ]_vars

\* A Sell went to the AlpacaBroker with no position held: the lookup was
\* answered 404 and the call returned.
C19_Witness ==
    /\ BROKER = "AlpacaBroker"
    /\ it.dec = "sell"
    /\ it.held = 0
    /\ it.pos_qty = 0
    /\ it.http = <<"GET /positions -> 404">>
    /\ it.outcome = "failed"

\* C20: the open-order check is best-effort: with a broker that cannot
\* answer it (it has no open_orders method, or the query raises) the check
\* yields no open orders, and an iteration that passed the debounce and
\* the direction guard with qty > 0 goes on to its submission instead of
\* failing or stopping, whatever orders are open at the brokerage.
C20_OpenOrderCheckBestEffort ==
    [][ (/\ Ran
         /\ it'.outcome \notin {"raised", "debounce"}
         /\ "open_orders" \notin BrokerAttrs(BROKER)
         /\ CanSubmit(Direction(it'.dec, it'.pos_qty, ALLOW_SHORT), it'.qty))
            => /\ it'.outcome \in {"ok", "failed", "exception"}
               /\ Submitted(it')
               /\ it'.calls = <<"place_order">> ]_vars

\* An order was open at the brokerage, the AlpacaBroker has no open_orders
\* method, and the iteration went on to submit.
C20_Witness ==
    /\ BROKER = "AlpacaBroker"
    /\ it.open > 0
    /\ Submitted(it)
    /\ it.outcome = "ok"

\* The ledger entry of the symbol of the last call, before and after it.
PaperBefore == direct.paper_before[direct.symbol]

PaperAfter == _positions[direct.symbol]

C22_PaperRoundTrip ==
    (/\ direct.n > 1
     /\ direct.prev.side = "buy"
     /\ direct.side = "sell"
     /\ direct.symbol = direct.prev.symbol
     /\ direct.qty = direct.prev.qty)
        => /\ direct.prev.ok
           /\ direct.paper_res.ok
           /\ \A s \in Symbols : _positions[s] = direct.prev.paper_before[s]

\* A Buy of 2 and a Sell of 2 were made from a ledger that held 1 share of
\* the symbol and shares of the other symbol.
C22_Witness ==
    /\ direct.n > 2
    /\ direct.prev.side = "buy" /\ direct.side = "sell"
    /\ direct.symbol = direct.prev.symbol
    /\ direct.qty = 2 /\ direct.prev.qty = 2
    /\ direct.prev.paper_before[direct.symbol] = 1
    /\ PaperAfter = 1

\* C30: after any sequence of place_order calls on the PaperBroker every
\* symbol's ledger position is >= 0: a Sell on a position <= 0 is refused
\* with no_position_to_sell and leaves the ledger unchanged, and a Sell
\* larger than the position leaves the position at 0.
C30_PaperLedgerNeverShort ==
    /\ \A s \in Symbols : _positions[s] >= 0
    /\ (direct.n > 0 /\ direct.side = "sell")
           => /\ (PaperBefore <= 0)
                     => /\ direct.paper_res
                              = OrderResult(FALSE, "none", "none",
                                            "no_position_to_sell")
                        /\ _positions = direct.paper_before
              /\ (PaperBefore > 0 /\ direct.qty > PaperBefore)
                     => (direct.paper_res.ok /\ PaperAfter = 0)

\* A Sell of 2 on a position of 1 left the position at 0.
C30_Witness ==
    /\ direct.side = "sell"
    /\ direct.qty = 2
    /\ PaperBefore = 1
    /\ PaperAfter = 0
    /\ direct.paper_res.ok

\* C23: the PaperBroker and the AlpacaBroker are equivalent for the worker:
\* for the same sequence of place_order calls, the brokerage applying +qty
\* for a Buy and -qty for a Sell and never failing, both return the same
\* ok / not ok for each call and hold the same position afterwards.
C23_BrokersEquivalent ==
    (direct.n > 0 /\ direct.clean)
        => /\ ~direct.live.raised
           /\ direct.paper_res.ok = direct.live.res.ok
           /\ \A s \in Symbols :
                  PaperBroker_get_position_qty(_positions, s)
                      = AlpacaBroker_get_position_qty(remote_pos, s, "none").val

\* position_size has been called.
Sized == sizing # NoSizing

\* The arguments of the call are the ones C24 is about: atr or price is
\* None, or one of the four numbers is <= 0 (equity a number).
FailsSoftArgs ==
    /\ sizing.equity # NoneNum
    /\ \/ sizing.atr = NoneNum \/ sizing.price = NoneNum
       \/ sizing.atr <= 0 \/ sizing.price <= 0
       \/ sizing.equity <= 0 \/ sizing.num <= 0

\* C24: for every input with atr <= 0, price <= 0, equity <= 0 or
\* risk_pct <= 0, or with atr or price missing, position_size returns
\* (0, 0, 0) and does not raise.
C24_FailsSoft ==
    (Sized /\ FailsSoftArgs)
        => /\ ~sizing.raised
           /\ sizing.out = <<0, 0, 0>>

\* A call with a good atr and price and an equity <= 0 has returned.
C24_Witness ==
    /\ Sized /\ ~sizing.raised
    /\ sizing.atr = 2 /\ sizing.price = 100 /\ sizing.equity = -1
    /\ sizing.num = 1

\* C25: for valid inputs position_size returns qty =
\* floor(equity * risk_pct / atr) >= 0, stop = max(price - 1 * atr, 0) >= 0
\* and take = price + 2 * atr; for equity = 10000, atr = 2, price = 100,
\* risk_pct = 1/100 the result is (50, 98, 104).
C25_SizingFormula ==
    (Sized /\ ~FailsSoftArgs /\ sizing.equity # NoneNum)
        => LET qty == sizing.out[1]
               stop == sizing.out[2]
               take == sizing.out[3]
           IN  /\ ~sizing.raised
               /\ qty >= 0
               /\ qty * sizing.den * sizing.atr <= sizing.equity * sizing.num
               /\ sizing.equity * sizing.num < (qty + 1) * sizing.den * sizing.atr
               /\ stop >= 0
               /\ stop = (IF sizing.price - sizing.atr >= 0
                            THEN sizing.price - sizing.atr ELSE 0)
               /\ take = sizing.price + 2 * sizing.atr
               /\ (sizing.equity = 10000 /\ sizing.atr = 2 /\ sizing.price = 100
                      /\ sizing.num = 1 /\ sizing.den = 100)
                     => sizing.out = <<50, 98, 104>>

\* The call of the example has returned.
C25_Witness ==
    /\ Sized /\ ~sizing.raised
    /\ sizing.equity = 10000 /\ sizing.atr = 2 /\ sizing.price = 100
    /\ sizing.num = 1 /\ sizing.den = 100
    /\ sizing.out = <<50, 98, 104>>

\* A valid call whose stop is held at 0 and whose qty is rounded down.
C25_WitnessClamped ==
    /\ Sized /\ ~sizing.raised
    /\ sizing.equity = 999 /\ sizing.atr = 3 /\ sizing.price = 1
    /\ sizing.num = 2 /\ sizing.den = 100
    /\ sizing.out = <<6, 0, 7>>

\* The number of error notifications sent.
Errors(notes) == Cardinality({i \in DOMAIN notes : notes[i].kind = "error"})

Cancelled == direct.live_before.orders \ remote_orders

Cancellable ==
    {o \in direct.live_before.orders :
        /\ o.symbol = direct.symbol
        /\ o.side = Opposite(direct.side)
        /\ o.status \in {"new", "accepted"}}

\* C27: the cancel step of the live broker's place_order touches only open
\* orders on the order's own symbol, on the opposite side, in status "new"
\* or "accepted"; same-side orders and orders in another status stay.
C27_CancelFrame ==
    (direct.n > 0)
        => /\ Cancelled \subseteq Cancellable
           /\ Count(direct.live.http, "DELETE /orders")
                  \in {0, Cardinality(Cancellable)}
           /\ \A o \in direct.live_before.orders :
                  (o.side = direct.side \/ o.status \notin {"new", "accepted"}
                     \/ o.symbol # direct.symbol)
                      => o \in remote_orders

\* A Buy of AAPL against all the orders of OpenAtStart has cancelled the
\* "new" Sell of AAPL and nothing else.
C27_Witness ==
    /\ direct.n > 0 /\ direct.symbol = "AAPL" /\ direct.side = "buy"
    /\ direct.live_before.orders = OpenAtStart
    /\ direct.live.res.ok
    /\ Cardinality(Cancelled) = 1
    /\ \A o \in Cancelled : o.id = 1
    /\ Count(direct.live.http, "DELETE /orders") = 1

\* The last call was answered flip_throttled.
Throttled == ~direct.live.raised /\ direct.live.res.error = "flip_throttled"

\* An order of the last call's (symbol, side) was accepted less than
\* _min_flip_secs before the call.
RecentlyAccepted ==
    LET at == direct.acc_before[<<direct.symbol, direct.side>>]
    IN  at # NoneNum /\ direct.t - at < _min_flip_secs

\* C28: the live broker's place_order returns flip_throttled, without any
\* HTTP request, exactly when an order for the same (symbol, side) was
\* accepted less than _min_flip_secs earlier; orders that failed or were
\* rejected, and accepted orders of the other side, do not throttle.
C28_ThrottleArmedByAccepted ==
    (direct.n > 0)
        => /\ Throttled <=> RecentlyAccepted
           /\ Throttled => direct.live.http = <<>>

\* The second of two calls for the same (symbol, side) in the same second
\* was throttled.
C28_Witness ==
    /\ direct.n = 2 /\ Throttled
    /\ direct.prev.symbol = direct.symbol /\ direct.prev.side = direct.side
    /\ direct.t = StartTime

\* The second of two Buys of one symbol in the same second reached the
\* brokerage: no order of the first was accepted.
C28_WitnessNotArmed ==
    /\ direct.n = 2 /\ ~Throttled
    /\ direct.side = "buy" /\ direct.prev.side = "buy"
    /\ direct.prev.symbol = direct.symbol
    /\ direct.t = StartTime
    /\ direct.live.http # <<>>

\* A Buy right after an accepted Sell of the same symbol was not throttled.
C28_WitnessOtherSide ==
    /\ direct.n = 2 /\ ~Throttled
    /\ direct.side = "buy" /\ direct.prev.side = "sell"
    /\ direct.prev.symbol = direct.symbol
    /\ direct.acc_before[<<direct.symbol, "sell">>] = StartTime
    /\ direct.t = StartTime

IdXorError(r) ==
    IF r.ok THEN r.id # "none" /\ r.error = "none"
    ELSE r.error # "none" /\ r.id = "none"

\* C31: every OrderResult a broker's place_order returns with
\* ok = true carries an order id and no error, and every one returned with
\* ok = false carries an error and no order id.
C31_IdXorError ==
    (direct.n > 0)
        => /\ IdXorError(direct.paper_res)
           /\ ~direct.live.raised => IdXorError(direct.live.res)

====
